---- MODULE Spec2Model ----
(***************************************************************************)
(* State-machine model of events/views.py: the request handlers for        *)
(* events, event signup (attendees) and sessions, over a shared relational *)
(* store.  The state is the store, the clock and the requests in flight.   *)
(* A handler runs one step per round trip to the store: a request that has *)
(* read the store and has yet to read or write it again is in flight,      *)
(* holding the objects it loaded, and the steps of different requests      *)
(* interleave.  The answer of a request is given by an operator on the     *)
(* state in which the step that answers runs.                              *)
(***************************************************************************)
EXTENDS Integers, FiniteSets, Bags, TLC

\* ------------------------------------------------------------------ bounds
MaxTime == 1
MaxEvents == 2
MaxSessions == 2
MaxAttendees == 2
MaxInflight == 2

Users == {"u1", "u2"}
Anon == "anon"
Requesters == Users \cup {Anon}
EventSlugs == {"e1", "e2"}
SessionSlugs == {"s1", "s2"}
Titles == {"t1", "t2"}
Dates == 0..MaxTime

\* ------------------------------------------------------- status constants
HTTP_200_OK == 200
HTTP_201_CREATED == 201
HTTP_400_BAD_REQUEST == 400
HTTP_204_NO_CONTENT == 204
HTTP_403_FORBIDDEN == 403
HTTP_404_NOT_FOUND == 404
\* exceptions.APIException(detail, code): the second argument is the error
\* code of the detail; the response status is the class's status_code.
APIException_status_code == 500
\* An exception of the store that no handler catches is answered 500.
IntegrityError_status == 500
\* An unauthenticated request refused by IsAuthenticated(OrReadOnly) is
\* answered 401 or 403, depending on the configured authenticators.
NotAuthenticated_status == {401, 403}
\* Session.status of a session saved without one.
DefaultStatus == "Draft"

VARIABLES
    now,          \* the clock read by timezone.now()
    queryset_now, \* timezone.now() as evaluated in EventListCreateAPIView.queryset
    events,       \* Event rows: [id, slug, hosted_by, event_date]
    attendees,    \* bag of Attendee rows: [user, events]
    sessions,     \* Session rows: [id, events, slug, status, proposed_by, title]
    event_seq,    \* the last primary key the store gave an Event row
    session_seq,  \* the last primary key the store gave a Session row
    inflight      \* bag of requests between two store round trips, each
                  \* [op, ...] with the objects it loaded and its data

vars == <<now, queryset_now, events, attendees, sessions, event_seq, session_seq, inflight>>
store == <<events, attendees, sessions, event_seq, session_seq>>
clock == <<now, queryset_now>>

\* ----------------------------------------------------------------- helpers
is_authenticated(u) == u \in Users

\* Event.objects.filter(slug=slug)
EventsBySlug(slug) == {e \in events : e.slug = slug}
TheEvent(slug) == CHOOSE e \in events : e.slug = slug
EventIds == {e.id : e \in events}

\* event.attendees.filter(user=u), for a loaded event
AttendeeRows(event, u) ==
    {r \in BagToSet(attendees) : r.events = event.id /\ r.user = u}
\* number of Attendee rows for (user, event) in the table rows
CountIn(rows, eid, u) ==
    IF [user |-> u, events |-> eid] \in BagToSet(rows)
    THEN rows[[user |-> u, events |-> eid]] ELSE 0
AttendeeCount(eid, u) == CountIn(attendees, eid, u)

\* Rows left when the Event with primary key eid is deleted.
CascadeAttendees(eid) ==
    LET keep == {r \in BagToSet(attendees) : r.events # eid}
    IN  [r \in keep |-> attendees[r]]
CascadeSessions(eid) == {s \in sessions : s.events # eid}

\* The requests in flight of operation op, and their number.
InflightOf(op) == {r \in BagToSet(inflight) : r.op = op}
CountOp(op) == BagCardinality([r \in InflightOf(op) |-> inflight[r]])

\* permissions.IsAuthenticated
IsAuthenticated(u) == is_authenticated(u)
\* permissions.IsAuthenticatedOrReadOnly
IsAuthenticatedOrReadOnly(method, u) == method = "GET" \/ is_authenticated(u)
\* custom_permissions.IsOwnerOrReadOnly
IsOwnerOrReadOnly(method, u, event) == method = "GET" \/ event.hosted_by = u
\* custom_permissions.IsProposerOrReadOnly
IsProposerOrReadOnly(method, u, session) == method = "GET" \/ session.proposed_by = u

\* Event.slug is unique: an Event has the slug, which keeps another from
\* being validated or inserted.
EventSlugTaken(slug) == EventsBySlug(slug) # {}

\* Model.save() of a loaded Event: the row with its primary key is
\* overwritten; when the row is gone it is inserted again, unless another
\* Event has the slug.
EventSaved(event) ==
    IF event.id \in EventIds
    THEN {e \in events : e.id # event.id} \cup {event}
    ELSE IF EventSlugTaken(event.slug) THEN events
    ELSE events \cup {event}

\* Session.slug is unique within its event: the Session rows that keep the
\* Session session from being inserted.
SessionClash(session) ==
    {s \in sessions : s.id # session.id /\ s.events = session.events
                      /\ s.slug = session.slug}

\* -------------------------------------------------------- sign_up_to_event
\* sign_up_check without the check of event.attendees (lines 36-39).
sign_up_check_without_attendee_check(u, event) ==
    IF event.hosted_by = u THEN APIException_status_code
    ELSE 0

\* sign_up_check without the check of event.hosted_by (lines 32-35).
sign_up_check_without_host_check(u, event) ==
    IF AttendeeRows(event, u) # {} THEN APIException_status_code
    ELSE 0

\* Lines 32-39 on the event loaded at line 31: the status of the failure
\* raised, 0 if none.
sign_up_check(u, event) ==
    IF event.hosted_by = u THEN APIException_status_code
    ELSE IF AttendeeRows(event, u) # {} THEN APIException_status_code
    ELSE 0

\* The statuses with which lines 28-31 refuse a request, {} if they let
\* it through.
sign_up_get_event_status(u, slug) ==
    IF ~IsAuthenticated(u) THEN NotAuthenticated_status
    ELSE IF EventsBySlug(slug) = {} THEN {HTTP_404_NOT_FOUND}
    ELSE {}

\* Lines 28-31: the permission check and the event lookup.
sign_up_get_event(u, slug) ==
    /\ UNCHANGED <<clock, store>>
    /\ IF sign_up_get_event_status(u, slug) # {}
       THEN UNCHANGED inflight
       ELSE /\ BagCardinality(inflight) < MaxInflight
            /\ BagCardinality(attendees) + CountOp("sign_up_check")
                   + CountOp("sign_up_save") < MaxAttendees
            /\ inflight' = inflight (+) SetToBag({[op |-> "sign_up_check", user |-> u,
                                                   event |-> TheEvent(slug)]})

\* The statuses with which lines 32-39 refuse the request r, {} if they
\* let it through.
sign_up_check_status(r) ==
    IF sign_up_check(r.user, r.event) # 0 THEN {sign_up_check(r.user, r.event)}
    ELSE {}

\* Lines 32-39 of the request r: the host check on the loaded event and
\* the read of event.attendees.
sign_up_check_step(r) ==
    /\ r \in InflightOf("sign_up_check")
    /\ UNCHANGED <<clock, store>>
    /\ IF sign_up_check_status(r) # {}
       THEN inflight' = inflight (-) SetToBag({r})
       ELSE inflight' = (inflight (-) SetToBag({r}))
                           (+) SetToBag({[r EXCEPT !.op = "sign_up_save"]})

\* The statuses with which the save of the request r is answered.
sign_up_save_status(r) ==
    IF r.event.id \in EventIds THEN {HTTP_201_CREATED}
    ELSE {IntegrityError_status, HTTP_201_CREATED}

\* Line 40: Attendee(user=u, events=event).save()
AttendeeSave(u, eid) == attendees (+) SetToBag({[user |-> u, events |-> eid]})

\* Lines 40-41 of the request r.  When the event has been deleted
\* meanwhile, the store either rejects the insert or keeps a row without
\* event, depending on whether it enforces the foreign key.
sign_up_save(r) ==
    /\ r \in InflightOf("sign_up_save")
    /\ inflight' = inflight (-) SetToBag({r})
    /\ UNCHANGED <<clock, events, sessions, event_seq, session_seq>>
    /\ IF r.event.id \in EventIds
       THEN attendees' = AttendeeSave(r.user, r.event.id)
       ELSE \/ UNCHANGED attendees
            \/ attendees' = AttendeeSave(r.user, r.event.id)

\* ------------------------------------------------ EventListCreateAPIView
\* queryset: the filter's right-hand side was computed when the class body
\* ran; each request re-runs the query with that value.
EventListCreateAPIView_queryset == {e \in events : e.event_date > queryset_now}

\* GET
EventListCreateAPIView_list_response ==
    [status |-> HTTP_200_OK, data |-> EventListCreateAPIView_queryset]

EventListCreateAPIView_list == UNCHANGED vars

\* POST: the statuses with which the permission check and the validation
\* of the slug refuse a request, {} if they let it through.
EventListCreateAPIView_create_status(u, slug) ==
    IF ~IsAuthenticatedOrReadOnly("POST", u) THEN NotAuthenticated_status
    ELSE IF EventSlugTaken(slug) THEN {HTTP_400_BAD_REQUEST}
    ELSE {}

\* create up to perform_create: the permission check and the validation.
EventListCreateAPIView_create(u, slug, date) ==
    /\ UNCHANGED <<clock, store>>
    /\ IF EventListCreateAPIView_create_status(u, slug) # {}
       THEN UNCHANGED inflight
       ELSE /\ BagCardinality(inflight) < MaxInflight
            /\ event_seq + CountOp("event_create") < MaxEvents
            /\ inflight' = inflight (+) SetToBag({[op |-> "event_create", user |-> u,
                                                   slug |-> slug, date |-> date]})

\* The statuses with which the save of the request r is answered.
EventListCreateAPIView_perform_create_status(r) ==
    IF EventSlugTaken(r.slug) THEN {IntegrityError_status} ELSE {HTTP_201_CREATED}

\* perform_create saves the validated event with hosted_by = requester.
\* The store gives the row the next primary key, and rejects a second
\* Event with the slug.
EventListCreateAPIView_perform_create(r) ==
    /\ r \in InflightOf("event_create")
    /\ inflight' = inflight (-) SetToBag({r})
    /\ UNCHANGED <<clock, attendees, sessions, session_seq>>
    /\ IF EventSlugTaken(r.slug)
       THEN UNCHANGED <<events, event_seq>>
       ELSE /\ event_seq' = event_seq + 1
            /\ events' = events \cup {[id |-> event_seq + 1, slug |-> r.slug,
                                       hosted_by |-> r.user, event_date |-> r.date]}

\* ------------------------------------- EventRetrieveUpdateDestroyAPIView
EventRetrieveUpdateDestroyAPIView_queryset == events

\* Lines 114-118: 404 unless exactly one event has the slug.
EventRetrieveUpdateDestroyAPIView_retrieve_get_status(slug) ==
    IF Cardinality({e \in EventRetrieveUpdateDestroyAPIView_queryset : e.slug = slug}) # 1
    THEN {HTTP_404_NOT_FOUND} ELSE {}

\* GET, lines 114-118: the event lookup.
EventRetrieveUpdateDestroyAPIView_retrieve_get(u, slug) ==
    /\ UNCHANGED <<clock, store>>
    /\ IF EventRetrieveUpdateDestroyAPIView_retrieve_get_status(slug) # {}
       THEN UNCHANGED inflight
       ELSE /\ BagCardinality(inflight) < MaxInflight
            /\ inflight' = inflight (+) SetToBag({[op |-> "event_retrieve", user |-> u,
                                                   event |-> TheEvent(slug)]})

\* Line 124: request.user.is_authenticated and
\* event.attendees.filter(user=request.user), on the loaded event.  The
\* store is read only for an authenticated requester.
EventRetrieveUpdateDestroyAPIView_retrieve_has_sign_up(u, event) ==
    is_authenticated(u) /\ AttendeeRows(event, u) # {}

\* GET, lines 120-128 of the request r: the event is serialized and
\* has_sign_up set from the read of event.attendees.
EventRetrieveUpdateDestroyAPIView_retrieve_attendees(r) ==
    /\ r \in InflightOf("event_retrieve")
    /\ inflight' = (inflight (-) SetToBag({r}))
                       (+) SetToBag({[op |-> "event_retrieve_respond", user |-> r.user,
                             event |-> r.event,
                             has_sign_up |->
                                 EventRetrieveUpdateDestroyAPIView_retrieve_has_sign_up(
                                     r.user, r.event)]})
    /\ UNCHANGED <<clock, store>>

\* Lines 130-136: the answer to the request r, from the loaded event, the
\* has_sign_up set before and the clock read now.
EventRetrieveUpdateDestroyAPIView_retrieve_response(r) ==
    [status |-> HTTP_200_OK,
     has_sign_up |-> r.has_sign_up,
     event_is_open |-> r.event.event_date > now,
     is_authenticated |-> is_authenticated(r.user)]

\* GET, lines 130-136 of the request r: the clock is read and the response
\* sent.
EventRetrieveUpdateDestroyAPIView_retrieve(r) ==
    /\ r \in InflightOf("event_retrieve_respond")
    /\ inflight' = inflight (-) SetToBag({r})
    /\ UNCHANGED <<clock, store>>

\* EventUnsafeRefusal with permission_classes lacking IsOwnerOrReadOnly.
EventUnsafeRefusal_without_owner_permission(method, u, slug) ==
    IF ~IsAuthenticatedOrReadOnly(method, u) THEN NotAuthenticated_status
    ELSE IF {e \in EventRetrieveUpdateDestroyAPIView_queryset : e.slug = slug} = {}
         THEN {HTTP_404_NOT_FOUND}
    ELSE {}

\* The statuses with which the generic view refuses an unsafe request on
\* the event named slug, {} if it lets it through: check_permissions, then
\* get_object, then check_object_permissions.
EventUnsafeRefusal(method, u, slug) ==
    IF ~IsAuthenticatedOrReadOnly(method, u) THEN NotAuthenticated_status
    ELSE IF {e \in EventRetrieveUpdateDestroyAPIView_queryset : e.slug = slug} = {}
         THEN {HTTP_404_NOT_FOUND}
    ELSE IF ~IsOwnerOrReadOnly(method, u, TheEvent(slug)) THEN {HTTP_403_FORBIDDEN}
    ELSE {}

\* serializers.EventCreateUpdateSerializer on a loaded event: the fields
\* a request can write.
EventCreateUpdateSerializer_update(event, date) == [event EXCEPT !.event_date = date]

\* PUT and PATCH with valid data: the statuses with which get_object
\* refuses the request, {} if it lets it through.
EventRetrieveUpdateDestroyAPIView_update_status(method, u, slug) ==
    EventUnsafeRefusal(method, u, slug)

\* update, which PUT calls and PATCH calls through partial_update, up to
\* perform_update: the permission checks and get_object.
EventRetrieveUpdateDestroyAPIView_update(u, slug, date) ==
    /\ UNCHANGED <<clock, store>>
    /\ IF EventRetrieveUpdateDestroyAPIView_update_status("PUT", u, slug) # {}
       THEN UNCHANGED inflight
       ELSE /\ BagCardinality(inflight) < MaxInflight
            /\ inflight' = inflight (+) SetToBag({[op |-> "event_update", user |-> u,
                                                   event |-> TheEvent(slug), date |-> date]})

\* The statuses with which the save of the request r is answered.
EventRetrieveUpdateDestroyAPIView_perform_update_status(r) ==
    IF r.event.id \notin EventIds /\ EventSlugTaken(r.event.slug)
    THEN {IntegrityError_status} ELSE {HTTP_200_OK}

\* perform_update: serializer.save() writes the loaded event with the
\* validated data.
EventRetrieveUpdateDestroyAPIView_perform_update(r) ==
    /\ r \in InflightOf("event_update")
    /\ inflight' = inflight (-) SetToBag({r})
    /\ UNCHANGED <<clock, attendees, sessions, event_seq, session_seq>>
    /\ events' = EventSaved(EventCreateUpdateSerializer_update(r.event, r.date))

\* DELETE: the statuses with which get_object refuses the request, {} if it
\* lets it through.
EventRetrieveUpdateDestroyAPIView_destroy_status(u, slug) ==
    EventUnsafeRefusal("DELETE", u, slug)

\* destroy up to perform_destroy: the permission checks and get_object.
EventRetrieveUpdateDestroyAPIView_destroy(u, slug) ==
    /\ UNCHANGED <<clock, store>>
    /\ IF EventRetrieveUpdateDestroyAPIView_destroy_status(u, slug) # {}
       THEN UNCHANGED inflight
       ELSE /\ BagCardinality(inflight) < MaxInflight
            /\ inflight' = inflight (+) SetToBag({[op |-> "event_destroy", user |-> u,
                                                   event |-> TheEvent(slug)]})

\* The status with which the delete of the request r is answered.
EventRetrieveUpdateDestroyAPIView_perform_destroy_status(r) == {HTTP_204_NO_CONTENT}

\* perform_destroy: instance.delete() deletes the rows that refer to the
\* loaded event and the Event row.
EventRetrieveUpdateDestroyAPIView_perform_destroy(r) ==
    /\ r \in InflightOf("event_destroy")
    /\ inflight' = inflight (-) SetToBag({r})
    /\ UNCHANGED <<clock, event_seq, session_seq>>
    /\ events' = {e \in events : e.id # r.event.id}
    /\ attendees' = CascadeAttendees(r.event.id)
    /\ sessions' = CascadeSessions(r.event.id)

\* ---------------------------------------------------------------- sessions
\* .filter(events__slug=event_slug)
OfEventSlug(s, event_slug) == \E e \in events : e.id = s.events /\ e.slug = event_slug

ProposerListCreateAPIView_get_queryset(event_slug) ==
    {s \in sessions : s.status = "Draft" /\ OfEventSlug(s, event_slug)}
ProposerRetrieveUpdateDestroyAPIView_get_queryset(event_slug) ==
    {s \in sessions : s.status = "Draft" /\ OfEventSlug(s, event_slug)}
SessionListAPIView_get_queryset(event_slug) ==
    {s \in sessions : s.status = "Accepted" /\ OfEventSlug(s, event_slug)}
SessionRetrieveAPIView_get_queryset(event_slug) ==
    {s \in sessions : s.status = "Accepted" /\ OfEventSlug(s, event_slug)}
\* The denied list queryset with the status literal of the draft list.
DeniedSessionListAPIView_get_queryset_draft(event_slug) ==
    {s \in sessions : s.status = "Draft" /\ OfEventSlug(s, event_slug)}
DeniedSessionListAPIView_get_queryset(event_slug) ==
    {s \in sessions : s.status = "Denied" /\ OfEventSlug(s, event_slug)}
DeniedSessionRetrieveAPIView_get_queryset(event_slug) ==
    {s \in sessions : s.status = "Denied" /\ OfEventSlug(s, event_slug)}

\* GET on the three list views
ProposerListCreateAPIView_list_response(event_slug) ==
    [status |-> HTTP_200_OK, data |-> ProposerListCreateAPIView_get_queryset(event_slug)]
SessionListAPIView_list_response(event_slug) ==
    [status |-> HTTP_200_OK, data |-> SessionListAPIView_get_queryset(event_slug)]
DeniedSessionListAPIView_list_response(event_slug) ==
    [status |-> HTTP_200_OK, data |-> DeniedSessionListAPIView_get_queryset(event_slug)]

ProposerListCreateAPIView_list(event_slug) == UNCHANGED vars
SessionListAPIView_list(event_slug) == UNCHANGED vars
DeniedSessionListAPIView_list(event_slug) == UNCHANGED vars

\* POST: the statuses with which a request is refused before its save, {}
\* if it is let through.  The serializer validates the request before
\* perform_create sets the event (line 171), so a slug taken in the event
\* is met by the save only.
ProposerListCreateAPIView_create_status(u, event_slug, slug) ==
    IF ~IsAuthenticatedOrReadOnly("POST", u) THEN NotAuthenticated_status
    ELSE IF EventsBySlug(event_slug) = {} THEN {HTTP_404_NOT_FOUND}
    ELSE {}

\* create up to line 170 of perform_create: the permission check, the
\* validation and the lookup of the parent event.
ProposerListCreateAPIView_create(u, event_slug, slug, title) ==
    /\ UNCHANGED <<clock, store>>
    /\ IF ProposerListCreateAPIView_create_status(u, event_slug, slug) # {}
       THEN UNCHANGED inflight
       ELSE /\ BagCardinality(inflight) < MaxInflight
            /\ session_seq + CountOp("session_create") < MaxSessions
            /\ inflight' = inflight (+) SetToBag({[op |-> "session_create", user |-> u,
                                event |-> TheEvent(event_slug),
                                slug |-> slug, title |-> title]})

\* Model.save() of the Session session in flight: the row with its primary
\* key is overwritten; when there is none the row is inserted, unless a
\* Session of the event has the slug.  When the event is gone, the store
\* either rejects the insert or keeps a session without event, depending
\* on whether it enforces the foreign key.
SessionSave(session) ==
    IF \E s \in sessions : s.id = session.id
    THEN sessions' = {s \in sessions : s.id # session.id} \cup {session}
    ELSE IF SessionClash(session) # {} THEN UNCHANGED sessions
    ELSE IF session.events \in EventIds THEN sessions' = sessions \cup {session}
    ELSE \/ UNCHANGED sessions
         \/ sessions' = sessions \cup {session}

\* The statuses with which the save of the Session session is answered,
\* ok when it is written.
SessionSaveStatus(session, ok) ==
    IF \E s \in sessions : s.id = session.id THEN {ok}
    ELSE IF SessionClash(session) # {} THEN {IntegrityError_status}
    ELSE IF session.events \in EventIds THEN {ok}
    ELSE {IntegrityError_status, ok}

\* The statuses with which the save of the request r is answered.
ProposerListCreateAPIView_perform_create_status(r) ==
    SessionSaveStatus([id |-> session_seq + 1, events |-> r.event.id, slug |-> r.slug,
                       status |-> DefaultStatus, proposed_by |-> r.user,
                       title |-> r.title],
                      HTTP_201_CREATED)

\* Line 171 of perform_create: serializer.save(proposed_by=requester,
\* events=event).  The store gives the row the next primary key.
ProposerListCreateAPIView_perform_create(r) ==
    /\ r \in InflightOf("session_create")
    /\ inflight' = inflight (-) SetToBag({r})
    /\ UNCHANGED <<clock, events, attendees, event_seq>>
    /\ SessionSave([id |-> session_seq + 1, events |-> r.event.id, slug |-> r.slug,
                    status |-> DefaultStatus, proposed_by |-> r.user, title |-> r.title])
    /\ session_seq' = IF sessions' = sessions THEN session_seq ELSE session_seq + 1

\* get_object of a detail view over queryset qs
Lookup(qs, slug) == {s \in qs : s.slug = slug}

\* GET on a detail view over queryset qs
RetrieveStatus(qs, slug) ==
    IF Lookup(qs, slug) = {} THEN HTTP_404_NOT_FOUND ELSE HTTP_200_OK

ProposerRetrieveUpdateDestroyAPIView_retrieve_status(event_slug, slug) ==
    RetrieveStatus(ProposerRetrieveUpdateDestroyAPIView_get_queryset(event_slug), slug)
SessionRetrieveAPIView_retrieve_status(event_slug, slug) ==
    RetrieveStatus(SessionRetrieveAPIView_get_queryset(event_slug), slug)
DeniedSessionRetrieveAPIView_retrieve_status(event_slug, slug) ==
    RetrieveStatus(DeniedSessionRetrieveAPIView_get_queryset(event_slug), slug)

ProposerRetrieveUpdateDestroyAPIView_retrieve(event_slug, slug) == UNCHANGED vars
SessionRetrieveAPIView_retrieve(event_slug, slug) == UNCHANGED vars
DeniedSessionRetrieveAPIView_retrieve(event_slug, slug) == UNCHANGED vars

\* The statuses with which the generic view refuses an unsafe request on
\* the draft session (event_slug, slug), {} if it lets it through.
DraftUnsafeRefusal(method, u, event_slug, slug) ==
    LET found == Lookup(ProposerRetrieveUpdateDestroyAPIView_get_queryset(event_slug), slug)
    IN  IF ~IsAuthenticatedOrReadOnly(method, u) THEN NotAuthenticated_status
        ELSE IF found = {} THEN {HTTP_404_NOT_FOUND}
        ELSE IF ~IsProposerOrReadOnly(method, u, CHOOSE s \in found : TRUE)
             THEN {HTTP_403_FORBIDDEN}
        ELSE {}

TheDraft(event_slug, slug) ==
    CHOOSE s \in Lookup(ProposerRetrieveUpdateDestroyAPIView_get_queryset(event_slug), slug) : TRUE

\* serializers.SessionRetrieveCreateUpdateSerializer on a loaded session:
\* the fields a request can write.
SessionRetrieveCreateUpdateSerializer_update(session, title) ==
    [session EXCEPT !.title = title]

\* PUT and PATCH with valid data: the statuses with which get_object
\* refuses the request, {} if it lets it through.
ProposerRetrieveUpdateDestroyAPIView_update_status(method, u, event_slug, slug) ==
    DraftUnsafeRefusal(method, u, event_slug, slug)

\* update, which PUT calls and PATCH calls through partial_update, up to
\* perform_update: the permission checks and get_object.
ProposerRetrieveUpdateDestroyAPIView_update(u, event_slug, slug, title) ==
    /\ UNCHANGED <<clock, store>>
    /\ IF ProposerRetrieveUpdateDestroyAPIView_update_status("PUT", u, event_slug, slug) # {}
       THEN UNCHANGED inflight
       ELSE /\ BagCardinality(inflight) < MaxInflight
            /\ inflight' = inflight (+) SetToBag({[op |-> "session_update", user |-> u,
                                event_slug |-> event_slug,
                                session |-> TheDraft(event_slug, slug),
                                title |-> title]})

\* The statuses with which the save of the request r is answered.
ProposerRetrieveUpdateDestroyAPIView_perform_update_status(r) ==
    SessionSaveStatus(SessionRetrieveCreateUpdateSerializer_update(r.session, r.title),
                      HTTP_200_OK)

\* perform_update: serializer.save() writes the loaded session with the
\* validated data.
ProposerRetrieveUpdateDestroyAPIView_perform_update(r) ==
    /\ r \in InflightOf("session_update")
    /\ inflight' = inflight (-) SetToBag({r})
    /\ UNCHANGED <<clock, events, attendees, event_seq, session_seq>>
    /\ SessionSave(SessionRetrieveCreateUpdateSerializer_update(r.session, r.title))

\* DELETE: the statuses with which get_object refuses the request, {} if it
\* lets it through.
ProposerRetrieveUpdateDestroyAPIView_destroy_status(u, event_slug, slug) ==
    DraftUnsafeRefusal("DELETE", u, event_slug, slug)

\* destroy up to perform_destroy: the permission checks and get_object.
ProposerRetrieveUpdateDestroyAPIView_destroy(u, event_slug, slug) ==
    /\ UNCHANGED <<clock, store>>
    /\ IF ProposerRetrieveUpdateDestroyAPIView_destroy_status(u, event_slug, slug) # {}
       THEN UNCHANGED inflight
       ELSE /\ BagCardinality(inflight) < MaxInflight
            /\ inflight' = inflight (+) SetToBag({[op |-> "session_destroy", user |-> u,
                                event_slug |-> event_slug,
                                session |-> TheDraft(event_slug, slug)]})

\* The status with which the delete of the request r is answered.
ProposerRetrieveUpdateDestroyAPIView_perform_destroy_status(r) == {HTTP_204_NO_CONTENT}

\* perform_destroy: instance.delete() deletes the row of the loaded
\* session.
ProposerRetrieveUpdateDestroyAPIView_perform_destroy(r) ==
    /\ r \in InflightOf("session_destroy")
    /\ inflight' = inflight (-) SetToBag({r})
    /\ UNCHANGED <<clock, events, attendees, event_seq, session_seq>>
    /\ sessions' = {s \in sessions : s.id # r.session.id}

\* ------------------------------------------------ auxiliary read endpoints
\* Line 263: 404 unless an event has the slug.
attendee_list_get_event_status(event_slug) ==
    IF EventsBySlug(event_slug) = {} THEN {HTTP_404_NOT_FOUND} ELSE {}

\* Line 263: the event lookup.
attendee_list_get_event(event_slug) ==
    /\ UNCHANGED <<clock, store>>
    /\ IF attendee_list_get_event_status(event_slug) # {}
       THEN UNCHANGED inflight
       ELSE /\ BagCardinality(inflight) < MaxInflight
            /\ inflight' = inflight (+) SetToBag({[op |-> "attendee_list",
                                                   event |-> TheEvent(event_slug)]})

\* Lines 264-266: the answer to the request r, one entry per Attendee row
\* of the loaded event.
attendee_list_response(r) ==
    LET rows == {a \in BagToSet(attendees) : a.events = r.event.id}
    IN  [status |-> HTTP_200_OK, data |-> [a \in rows |-> attendees[a]]]

\* Lines 264-266.
attendee_list(r) ==
    /\ r \in InflightOf("attendee_list")
    /\ inflight' = inflight (-) SetToBag({r})
    /\ UNCHANGED <<clock, store>>

\* Line 272: 404 unless an event has the slug.
speakers_list_get_event_status(event_slug) ==
    IF EventsBySlug(event_slug) = {} THEN {HTTP_404_NOT_FOUND} ELSE {}

\* Line 272: the event lookup.
speakers_list_get_event(event_slug) ==
    /\ UNCHANGED <<clock, store>>
    /\ IF speakers_list_get_event_status(event_slug) # {}
       THEN UNCHANGED inflight
       ELSE /\ BagCardinality(inflight) < MaxInflight
            /\ inflight' = inflight (+) SetToBag({[op |-> "speakers_list",
                                                   event |-> TheEvent(event_slug)]})

\* Lines 273-275: the answer to the request r, the Accepted sessions of the
\* loaded event.
speakers_list_response(r) ==
    [status |-> HTTP_200_OK,
     data |-> {s \in sessions : s.events = r.event.id /\ s.status = "Accepted"}]

\* Lines 273-275.
speakers_list(r) ==
    /\ r \in InflightOf("speakers_list")
    /\ inflight' = inflight (-) SetToBag({r})
    /\ UNCHANGED <<clock, store>>

\* ------------------------------ session review, outside the request handlers
\* A Draft session is accepted or denied.
ReviewSession(s, st) ==
    /\ s.status = "Draft"
    /\ sessions' = (sessions \ {s}) \cup {[s EXCEPT !.status = st]}
    /\ UNCHANGED <<clock, events, attendees, event_seq, session_seq, inflight>>

\* ------------------------------------------------------------------- clock
Tick ==
    /\ now < MaxTime
    /\ now' = now + 1
    /\ UNCHANGED <<queryset_now, store, inflight>>

Init ==
    /\ now = 0
    /\ queryset_now = now
    /\ events = {}
    /\ attendees = EmptyBag
    /\ sessions = {}
    /\ event_seq = 0
    /\ session_seq = 0
    /\ inflight = EmptyBag

\* The handlers that write events, events created by the requesters in
\* creators with dates drawn from dates.
EventWriteHandlers(creators, dates) ==
    \/ \E u \in creators, slug \in EventSlugs, date \in dates :
           EventListCreateAPIView_create(u, slug, date)
    \/ \E r \in BagToSet(inflight) : EventListCreateAPIView_perform_create(r)
    \/ \E u \in Requesters, slug \in EventSlugs, date \in dates :
           EventRetrieveUpdateDestroyAPIView_update(u, slug, date)
    \/ \E r \in BagToSet(inflight) : EventRetrieveUpdateDestroyAPIView_perform_update(r)
    \/ \E u \in Requesters, slug \in EventSlugs :
           EventRetrieveUpdateDestroyAPIView_destroy(u, slug)
    \/ \E r \in BagToSet(inflight) : EventRetrieveUpdateDestroyAPIView_perform_destroy(r)

\* The handlers that read events and attendees.
EventReadHandlers ==
    \/ EventListCreateAPIView_list
    \/ \E u \in Requesters, slug \in EventSlugs :
           EventRetrieveUpdateDestroyAPIView_retrieve_get(u, slug)
    \/ \E r \in BagToSet(inflight) : EventRetrieveUpdateDestroyAPIView_retrieve_attendees(r)
    \/ \E r \in BagToSet(inflight) : EventRetrieveUpdateDestroyAPIView_retrieve(r)
    \/ \E event_slug \in EventSlugs : attendee_list_get_event(event_slug)
    \/ \E r \in BagToSet(inflight) : attendee_list(r)

\* The handlers that write sessions, sessions proposed by the requesters
\* in proposers.
SessionWriteHandlers(proposers) ==
    \/ \E u \in proposers, event_slug \in EventSlugs, slug \in SessionSlugs,
          title \in Titles :
           ProposerListCreateAPIView_create(u, event_slug, slug, title)
    \/ \E r \in BagToSet(inflight) : ProposerListCreateAPIView_perform_create(r)
    \/ \E u \in Requesters, event_slug \in EventSlugs, slug \in SessionSlugs,
          title \in Titles :
           ProposerRetrieveUpdateDestroyAPIView_update(u, event_slug, slug, title)
    \/ \E r \in BagToSet(inflight) : ProposerRetrieveUpdateDestroyAPIView_perform_update(r)
    \/ \E u \in Requesters, event_slug \in EventSlugs, slug \in SessionSlugs :
           ProposerRetrieveUpdateDestroyAPIView_destroy(u, event_slug, slug)
    \/ \E r \in BagToSet(inflight) : ProposerRetrieveUpdateDestroyAPIView_perform_destroy(r)

\* The handlers that read sessions.
SessionReadHandlers ==
    \/ \E event_slug \in EventSlugs : ProposerListCreateAPIView_list(event_slug)
    \/ \E event_slug \in EventSlugs : SessionListAPIView_list(event_slug)
    \/ \E event_slug \in EventSlugs : DeniedSessionListAPIView_list(event_slug)
    \/ \E event_slug \in EventSlugs, slug \in SessionSlugs :
           ProposerRetrieveUpdateDestroyAPIView_retrieve(event_slug, slug)
    \/ \E event_slug \in EventSlugs, slug \in SessionSlugs :
           SessionRetrieveAPIView_retrieve(event_slug, slug)
    \/ \E event_slug \in EventSlugs, slug \in SessionSlugs :
           DeniedSessionRetrieveAPIView_retrieve(event_slug, slug)
    \/ \E event_slug \in EventSlugs : speakers_list_get_event(event_slug)
    \/ \E r \in BagToSet(inflight) : speakers_list(r)

\* The steps of sign_up_to_event after its event lookup.
SignupSteps ==
    \/ \E r \in BagToSet(inflight) : sign_up_check_step(r)
    \/ \E r \in BagToSet(inflight) : sign_up_save(r)

\* The steps of sign_up_to_event.
SignupHandlers ==
    \/ \E u \in Requesters, slug \in EventSlugs : sign_up_get_event(u, slug)
    \/ SignupSteps

\* The review of a session.
Review == \E s \in sessions, st \in {"Accepted", "Denied"} : ReviewSession(s, st)

\* Events and signups over time.
Next ==
    \/ EventWriteHandlers(Requesters, Dates)
    \/ EventReadHandlers
    \/ SignupHandlers
    \/ Tick

Spec == Init /\ [][Next]_vars

\* A sign_up_to_event request of user u for the event named slug is in
\* flight.
InFlight(u, slug) ==
    \E r \in InflightOf("sign_up_check") \cup InflightOf("sign_up_save") :
        r.user = u /\ \E e \in events : e.slug = slug /\ e.id = r.event.id

\* Events and signups where the sign_up_to_event requests of a user for an
\* event are issued one after another: none starts while another is in
\* flight.  The clock stands still and every event has the same date.
NextOneAfterAnother ==
    \/ EventWriteHandlers(Requesters, {MaxTime})
    \/ \E u \in Requesters, slug \in EventSlugs :
           ~InFlight(u, slug) /\ sign_up_get_event(u, slug)
    \/ SignupSteps

SpecOneAfterAnother == Init /\ [][NextOneAfterAnother]_vars

\* Events, sessions and the review.  The clock stands still and every
\* event has the same date; events are created by u1 (or refused to anon)
\* and sessions by u2 (or refused to anon).
NextSessions ==
    \/ EventWriteHandlers({"u1", Anon}, {MaxTime})
    \/ SessionWriteHandlers({"u2", Anon})
    \/ SessionReadHandlers
    \/ Review

SpecSessions == Init /\ [][NextSessions]_vars


\* ===================================================================
\* Properties
\* ===================================================================
Methods == {"PUT", "PATCH"}
SessionsOf(e) == {s \in sessions : s.events = e.id}

\* C1: under any interleaving of sign_up_to_event requests, there is at
\* most one Attendee row per (user, event) pair.
C1_AtMostOneAttendeeRow ==
    \A u \in Requesters, e \in events : AttendeeCount(e.id, u) <= 1

\* The sign_up_to_event requests of user u for the event with key eid that
\* have passed their checks and are about to save, and their number.
SavesInFlight(eid, u) ==
    {r \in InflightOf("sign_up_save") : r.user = u /\ r.event.id = eid}
SaveCount(eid, u) == BagCardinality([r \in SavesInFlight(eid, u) |-> inflight[r]])

\* The steps of a sign_up_to_event request of a user for an existing event
\* that the user does not host.  Lines 32-39: with no row of the pair the
\* request goes on to its save; with a row it fails and adds none.  Lines
\* 40-41: the request is answered 201 and adds exactly one row, the first
\* of the pair.
C2_SignupStep ==
    /\ \A r \in InflightOf("sign_up_check") :
          \/ IF AttendeeCount(r.event.id, r.user) = 0
             THEN /\ sign_up_check_status(r) = {}
                  /\ [r EXCEPT !.op = "sign_up_save"] \in BagToSet(inflight')
                  /\ attendees' = attendees
             ELSE /\ sign_up_check_status(r) # {}
                  /\ HTTP_201_CREATED \notin sign_up_check_status(r)
                  /\ SaveCount(r.event.id, r.user) = 0
                  /\ \A q \in InflightOf("sign_up_save") : q \in BagToSet(inflight')
                  /\ InflightOf("sign_up_save")
                         = {q \in BagToSet(inflight') : q.op = "sign_up_save"}
                  /\ attendees' = attendees
          \/ ~(/\ r.event.id \in EventIds
               /\ r.event.hosted_by # r.user
               /\ sign_up_check_step(r))
    /\ \A r \in InflightOf("sign_up_save") :
          \/ /\ sign_up_save_status(r) = {HTTP_201_CREATED}
             /\ AttendeeCount(r.event.id, r.user) = 0
             /\ CountIn(attendees', r.event.id, r.user) = 1
             /\ BagCardinality(attendees') = BagCardinality(attendees) + 1
          \/ ~(r.event.id \in EventIds /\ sign_up_save(r))

\* C2: sign_up_to_event requests of a user U for an existing event E that U
\* does not host, issued one after another, succeed exactly once: the
\* first answers 201 and creates the one row of (U, E), every later one
\* fails and creates no row, so (U, E) never has more than one row, in the
\* store or about to be saved.
C2_SignupSucceedsOnce ==
    /\ [](\A u \in Users, e \in events :
             AttendeeCount(e.id, u) + SaveCount(e.id, u) <= 1)
    /\ [][C2_SignupStep]_vars

\* A user who does not host an event has signed up to it, and a repeat of
\* the request is in flight and about to fail.
C2_Witness ==
    \E e \in events, r \in InflightOf("sign_up_check") :
        /\ r.event.id = e.id
        /\ e.hosted_by # r.user
        /\ AttendeeCount(e.id, r.user) = 1
        /\ sign_up_check_status(r) # {}

\* C3: sign_up_to_event answers 400 to the event's host and to a user who
\* already has an Attendee row for the event, and 404 when no event has the
\* slug.
C3_SignupFailureStatus ==
    /\ \A u \in Users, slug \in EventSlugs :
          EventsBySlug(slug) = {}
              => sign_up_get_event_status(u, slug) = {HTTP_404_NOT_FOUND}
    /\ \A r \in InflightOf("sign_up_check") :
          (r.event.hosted_by = r.user \/ AttendeeCount(r.event.id, r.user) > 0)
              => sign_up_check_status(r) = {HTTP_400_BAD_REQUEST}

\* C4: no Attendee row (U, E) has U = E.hosted_by.
C4_HostNeverAttendee ==
    \A e \in events : AttendeeCount(e.id, e.hosted_by) = 0

\* A user attends one event and hosts another, while a sign-up request of
\* theirs for the event they host is in flight.
C4_Witness ==
    \E e1 \in events, e2 \in events :
        /\ e1 # e2
        /\ AttendeeCount(e1.id, e2.hosted_by) = 1
        /\ \E r \in InflightOf("sign_up_check") :
               r.user = e2.hosted_by /\ r.event.id = e2.id

\* C5: the event list contains no event whose event_date is at or before
\* the time of the request.
C5_ListOnlyFutureEvents ==
    \A e \in EventListCreateAPIView_list_response.data : e.event_date > now

C7_SessionPartition ==
    \A e \in events :
        LET draft == ProposerListCreateAPIView_list_response(e.slug).data
            accepted == SessionListAPIView_list_response(e.slug).data
            denied == DeniedSessionListAPIView_list_response(e.slug).data
        IN  /\ draft \cap accepted = {}
            /\ draft \cap denied = {}
            /\ accepted \cap denied = {}
            /\ draft \cup accepted \cup denied = SessionsOf(e)

\* An event has a Draft session and a reviewed one.
C7_Witness ==
    \E e \in events :
        /\ ProposerListCreateAPIView_list_response(e.slug).data # {}
        /\ SessionListAPIView_list_response(e.slug).data
             \cup DeniedSessionListAPIView_list_response(e.slug).data # {}

\* The answers to requests on an existing event: GET is let through for
\* every caller and answered 200; PUT, PATCH and DELETE are answered 403 to
\* an authenticated user who is not the host and let through for the host,
\* so that every write in flight is the host's; while the event exists the
\* host's update is answered 200 and the host's delete 204.
C8_Statuses ==
    /\ \A e \in events :
          /\ EventRetrieveUpdateDestroyAPIView_retrieve_get_status(e.slug) = {}
          /\ \A u \in Users, m \in Methods :
                /\ EventRetrieveUpdateDestroyAPIView_update_status(m, u, e.slug)
                      = IF u = e.hosted_by THEN {} ELSE {HTTP_403_FORBIDDEN}
                /\ EventRetrieveUpdateDestroyAPIView_destroy_status(u, e.slug)
                      = IF u = e.hosted_by THEN {} ELSE {HTTP_403_FORBIDDEN}
    /\ \A r \in InflightOf("event_retrieve_respond") :
          EventRetrieveUpdateDestroyAPIView_retrieve_response(r).status = HTTP_200_OK
    /\ \A r \in InflightOf("event_update") :
          /\ r.user = r.event.hosted_by
          /\ r.event.id \in EventIds
                => EventRetrieveUpdateDestroyAPIView_perform_update_status(r)
                       = {HTTP_200_OK}
    /\ \A r \in InflightOf("event_destroy") :
          /\ r.user = r.event.hosted_by
          /\ EventRetrieveUpdateDestroyAPIView_perform_destroy_status(r)
                 = {HTTP_204_NO_CONTENT}

\* A PUT, PATCH or DELETE on an existing event handled in this step: by an
\* authenticated user who is not the host it leaves the store as it is and
\* nothing in flight; the write of the host's update gives the event the
\* requested date and leaves its other fields and the other events alone,
\* the host's delete removes the event.
C8_Step ==
    /\ \A e \in events : \A u \in Users \ {e.hosted_by} :
          /\ \A date \in Dates :
                \/ UNCHANGED <<store, inflight>>
                \/ ~EventRetrieveUpdateDestroyAPIView_update(u, e.slug, date)
          /\ \/ UNCHANGED <<store, inflight>>
             \/ ~EventRetrieveUpdateDestroyAPIView_destroy(u, e.slug)
    /\ \A r \in InflightOf("event_update") :
          \/ \E e \in events :
                /\ e.id = r.event.id
                /\ events' = (events \ {e}) \cup {[e EXCEPT !.event_date = r.date]}
          \/ ~(/\ r.event.id \in EventIds
               /\ EventRetrieveUpdateDestroyAPIView_perform_update(r))
    /\ \A r \in InflightOf("event_destroy") :
          \/ events' = {e \in events : e.id # r.event.id}
          \/ ~EventRetrieveUpdateDestroyAPIView_perform_destroy(r)

\* C8: an authenticated user who is not the event's host is answered 403
\* to PATCH, PUT and DELETE on an existing event and the event is left
\* unchanged; the same request by the host succeeds; GET is allowed to any
\* caller.
C8_OwnerOnlyMutation == []C8_Statuses /\ [][C8_Step]_vars

\* An event has an attendee, an authenticated user who is not its host: a
\* PATCH of theirs is refused, while an update of the host is in flight.
C8_Witness ==
    \E e \in events, u \in Users :
        /\ u # e.hosted_by
        /\ AttendeeCount(e.id, u) = 1
        /\ EventRetrieveUpdateDestroyAPIView_update_status("PATCH", u, e.slug)
               = {HTTP_403_FORBIDDEN}
        /\ \E r \in InflightOf("event_update") : r.event.id = e.id /\ r.user = e.hosted_by

\* Every session there before and after the step has kept its status, and
\* every session the step created is a Draft.  A session is told by its
\* primary key.
StatusKept ==
    \A t \in sessions' :
        IF \E s \in sessions : s.id = t.id
        THEN \A s \in sessions : s.id = t.id => s.status = t.status
        ELSE t.status = "Draft"

\* C9: no request handler changes the status of an existing session, and a
\* session created through the draft create endpoint has status Draft:
\* every step other than the review keeps the status of every session.
C9_HandlersKeepStatus == [][StatusKept \/ Review]_vars

\* The answers of the draft detail endpoint to PUT, PATCH and DELETE by an
\* authenticated user u at the path (event_slug, s.slug), for a session s:
\* 403 when s is a Draft of that event and u is not its proposer; 404 when
\* s is Accepted or Denied, or belongs to another event, and the event of
\* the path has no Draft of that slug.
C10_Statuses ==
    \A s \in sessions, u \in Users, event_slug \in EventSlugs :
        LET answers ==
              {ProposerRetrieveUpdateDestroyAPIView_update_status(m, u, event_slug, s.slug) :
                   m \in Methods}
              \cup {ProposerRetrieveUpdateDestroyAPIView_destroy_status(u, event_slug, s.slug)}
            inPath == \E e \in events : e.slug = event_slug /\ e.id = s.events
            otherDraft == \E d \in sessions \ {s} :
                             /\ d.slug = s.slug /\ d.status = "Draft"
                             /\ \E e \in events : e.slug = event_slug /\ e.id = d.events
        IN  /\ (inPath /\ s.status = "Draft" /\ u # s.proposed_by)
               => answers = {{HTTP_403_FORBIDDEN}}
            /\ (inPath /\ s.status # "Draft") => answers = {{HTTP_404_NOT_FOUND}}
            /\ (~inPath /\ ~otherDraft) => answers = {{HTTP_404_NOT_FOUND}}

\* The write of a PUT, PATCH or DELETE on the draft detail endpoint in this
\* step: when it changes the sessions, the session it was sent for is
\* there, is a Draft of the event of the path and is proposed by the
\* requester, and no other session is touched.
C10_Step ==
    \A r \in InflightOf("session_update") \cup InflightOf("session_destroy") :
        \/ sessions' = sessions
        \/ /\ \E s \in sessions :
                 /\ s.id = r.session.id
                 /\ s.status = "Draft"
                 /\ s.proposed_by = r.user
                 /\ \E e \in events : e.slug = r.event_slug /\ e.id = s.events
           /\ \A s \in sessions : s.id # r.session.id => s \in sessions'
        \/ ~(\/ ProposerRetrieveUpdateDestroyAPIView_perform_update(r)
             \/ ProposerRetrieveUpdateDestroyAPIView_perform_destroy(r))

\* C10: through the draft detail endpoint an update or delete takes effect
\* only when the requester is the session's proposer and the session is a
\* Draft of the event named in the path; another authenticated user is
\* refused and the session unchanged; an Accepted or Denied session, or
\* one of another event, is not found and unchanged, also for its proposer.
C10_DraftDetailMutation == []C10_Statuses /\ [][C10_Step]_vars

====
